---- MODULE Spec2Model ----
(***************************************************************************)
(* A model of the channel state machine of lib/channel.js: the reply slot  *)
(* and pending queue of the RPC discipline (sendOrEnqueue, _rpc, rpc,      *)
(* consume, get, createChannel), the message-reassembly trampoline         *)
(* (acceptDelivery, acceptMessage, dispatchMessage) and the frame          *)
(* dispatch of Channel.prototype.handle.                                   *)
(*                                                                         *)
(* One step of the model is one whole call: an application call that       *)
(* issues an RPC, or one call of handle(f) for an incoming frame f,        *)
(* including the synchronous resolution callbacks it runs.                 *)
(***************************************************************************)
EXTENDS Integers, Sequences, FiniteSets, TLC

\* ------------------------------------------------------------- bounds
\* RPCs issued on the channel under Spec, the ChannelOpen of createChannel
\* included.
MaxRpc == 4
\* ChannelClose frames the peer sends.
MaxClose == 1
\* Messages handed to consumer callbacks.
MaxMsgs == 1
\* The largest bodySize a content header declares.
MaxBody == 2
\* Messages the application publishes.
MaxPub == 2
\* The largest payload of one body frame: a whole body.
MaxChunk == MaxBody
\* Body frames buffered for one message before the one that completes it.
MaxBuffers == MaxBody - 1

\* ------------------------------------------------------------- values
Bytes == {1, 2}
ConsumerTags == {"t1"}
DeliverTags == ConsumerTags \cup {"fake"}
Props == {"p1"}

RECURSIVE SeqsUpTo(_)
SeqsUpTo(n) ==
  IF n = 0 THEN {<< >>}
  ELSE LET S == SeqsUpTo(n - 1)
       IN  S \cup {Append(s, b) : s \in {t \in S : Len(t) = n - 1}, b \in Bytes}

Chunks == SeqsUpTo(MaxChunk)

\* An incoming frame, decoded: id is the method id; "undefined" is a content
\* (body) frame, which has no id; "BasicProperties" is a content header.
Frame(id, tag, size, props, content) ==
  [id |-> id, tag |-> tag, size |-> size, props |-> props, content |-> content]

Method(id) == Frame(id, "", 0, "", << >>)

\* The methods handle() sends to its default branch: replies.
ReplyIds == {"ChannelOpenOk", "BasicQosOk", "BasicGetOk", "BasicGetEmpty",
             "ChannelCloseOk"}

DeliverFrames  == {Frame("BasicDeliver", t, 0, "", << >>) : t \in DeliverTags}
HeaderFrames   == {Frame("BasicProperties", "", s, p, << >>) :
                     s \in 0..MaxBody, p \in Props}
BodyFrames     == {Frame("undefined", "", 0, "", c) : c \in Chunks}
ReplyFrames    == {Method(i) : i \in ReplyIds}
                    \cup {Frame("BasicConsumeOk", t, 0, "", << >>) : t \in ConsumerTags}
CloseFrames    == {Method("ChannelClose")}
NotImplFrames  == {Method(i) : i \in {"BasicAck", "BasicNack", "BasicCancel",
                                      "BasicReturn"}}

NoMsg == [fields |-> "", properties |-> "", content |-> << >>]
NoVal == [what |-> "none", id |-> "", msg |-> NoMsg]

\* ------------------------------------------------------------- state
VARIABLES
  reply,      \* this.reply: 0 (null) or the RPC whose deferred holds the slot
  pending,    \* this.pending: the RPCs awaiting action, in order
  consumers,  \* this.consumers: the tags with a registered callback
  hm,         \* this.handleMessage: the state of the reassembly trampoline
  rpcs,       \* every RPC issued, in issuance order, with its deferred
  wire,       \* the method frames handed to connection.sendMethod, in order
  delivered,  \* the messages passed to consumer callbacks, in order
  settled,    \* the RPCs whose deferred was settled, in settling order
  thrown,     \* the error the last call threw to its caller, or "none"
  rest,       \* Frames.rest: the octets read from the stream and not yet decoded
  readable,   \* the octets the stream holds for the next stream.read()
  socket,     \* the octets the peer has written that have not arrived yet
  received,   \* the frames recvFrame has returned, in order
  ret,        \* what the last call of recvFrame returned
  cur,        \* the number of the channel whose fields the variables above hold
  chans       \* the fields of the connection's other channels, by number

vars == <<reply, pending, consumers, hm, rpcs, wire, delivered, settled, thrown,
          rest, readable, socket, received, ret, cur, chans>>

\* The state of the channel and the state of the frame decoder.
chanVars == <<reply, pending, consumers, hm, rpcs, wire, delivered, settled>>
codecVars == <<rest, readable, socket, received, ret>>
connVars == <<cur, chans>>


\* --------------------------------------------------- the wire, the RPCs
\* The method each kind of call sends and the reply id it expects.
MethodOf(kind) ==
  CASE kind = "open"    -> "ChannelOpen"
    [] kind = "rpc"     -> "BasicQos"
    [] kind = "consume" -> "BasicConsume"
    [] kind = "get"     -> "BasicGet"

\* createChannel as it would be with the wrong reply named in its rpc call.
ExpectOf_OpenExpectsCloseOk(kind) ==
  CASE kind = "open"    -> "ChannelCloseOk"
    [] kind = "rpc"     -> "BasicQosOk"
    [] kind = "consume" -> "BasicConsumeOk"
    [] kind = "get"     -> "BasicGetOk"

ExpectOf(kind) ==
  CASE kind = "open"    -> "ChannelOpenOk"
    [] kind = "rpc"     -> "BasicQosOk"
    [] kind = "consume" -> "BasicConsumeOk"
    [] kind = "get"     -> "BasicGetOk"

\* connection.sendMethod(this.ch, method, fields): the frame is written.
\* rpc is the RPC the method frame belongs to (0: none).
SendImmediately(w, method, rpc) == Append(w, [method |-> method, rpc |-> rpc])

\* A fresh RPC: deferSync() in _rpc or get, before sendOrEnqueue.
NewRpc(kind) ==
  [kind |-> kind, method |-> MethodOf(kind), expect |-> ExpectOf(kind),
   sent |-> FALSE, replied |-> FALSE, rix |-> 0,
   st |-> "unsettled",
   out |-> "unsettled", outval |-> NoVal]

\* The RPC request frames written so far for which no reply frame has been
\* handled.
InFlight == {i \in 1..Len(rpcs) : rpcs[i].sent /\ ~rpcs[i].replied}

\* ------------------------------------------------- reassembly trampoline
\* unexpectedFrame: the trampoline state when no message is announced.
Idle ==
  [st |-> "unexpectedFrame", kind |-> "", fields |-> "", rpc |-> 0,
   remaining |-> 0, buffers |-> << >>, props |-> ""]

\* acceptMessage(continuation): a fresh message, awaiting its header.
\* kind and fields (and rpc, for get) are what the continuation closes over.
AcceptMessage(kind, fields, rpc) ==
  [st |-> "headers", kind |-> kind, fields |-> fields, rpc |-> rpc,
   remaining |-> 0, buffers |-> << >>, props |-> ""]

\* acceptDelivery(f): the continuation dispatches to f.fields.consumerTag.
AcceptDelivery(f) == AcceptMessage("deliver", f.tag, 0)

\* Buffer.concat(buffers)
RECURSIVE Concat(_)
Concat(bufs) == IF bufs = << >> THEN << >> ELSE Head(bufs) \o Concat(Tail(bufs))

\* One call this.handleMessage(f) in state h: the next state (what is
\* assigned back to this.handleMessage when nothing throws, and what the
\* closure holds when something does), the error thrown, and the message
\* handed to the continuation when the body is complete.
\*   next: the closure's variables after the call
\*   err:  "none" or the error thrown before the continuation is reached
\*   done: the continuation is called with msg
Step(next, err, done, msg) == [next |-> next, err |-> err, done |-> done, msg |-> msg]

\* headers(f) as it would be if a header declaring an empty body completed
\* the message at once.
HeadersState_CompletesEmpty(h, f) ==
  IF f.id = "BasicProperties"
  THEN IF f.size = 0
       THEN Step([h EXCEPT !.props = f.props], "none", TRUE,
                 [fields |-> h.fields, properties |-> f.props, content |-> << >>])
       ELSE Step([h EXCEPT !.st = "content", !.props = f.props, !.remaining = f.size],
                 "none", FALSE, NoMsg)
  ELSE Step(h, "Expected headers frame after delivery", FALSE, NoMsg)

HeadersState(h, f) ==
  IF f.id = "BasicProperties"
  THEN Step([h EXCEPT !.st = "content", !.props = f.props, !.remaining = f.size],
            "none", FALSE, NoMsg)
  ELSE Step(h, "Expected headers frame after delivery", FALSE, NoMsg)

\* content(f) as it would be with the tests of remaining merged: a body that
\* overruns the declared size completes the message.
ContentState_OverrunCompletes(h, f) ==
  IF f.id = "undefined"
  THEN LET rem == h.remaining - Len(f.content)
       IN  IF rem <= 0
           THEN Step([h EXCEPT !.remaining = rem], "none", TRUE,
                     [fields |-> h.fields, properties |-> h.props,
                      content |-> Concat(h.buffers) \o f.content])
           ELSE Step([h EXCEPT !.remaining = rem,
                               !.buffers = Append(h.buffers, f.content)],
                     "none", FALSE, NoMsg)
  ELSE Step(h, "Expected content frame after headers", FALSE, NoMsg)

ContentState(h, f) ==
  IF f.id = "undefined"
  THEN LET size == Len(f.content)
           rem  == h.remaining - size
       IN  IF rem = 0
           THEN LET bufs == IF h.buffers # << >> THEN Append(h.buffers, f.content)
                                                 ELSE h.buffers
                    body == IF h.buffers # << >> THEN Concat(bufs) ELSE f.content
                IN  Step([h EXCEPT !.remaining = rem, !.buffers = bufs], "none", TRUE,
                         [fields |-> h.fields, properties |-> h.props, content |-> body])
           ELSE IF rem < 0
           THEN Step([h EXCEPT !.remaining = rem], "Too much content sent!", FALSE, NoMsg)
           ELSE Step([h EXCEPT !.remaining = rem,
                               !.buffers = Append(h.buffers, f.content)],
                     "none", FALSE, NoMsg)
  ELSE Step(h, "Expected content frame after headers", FALSE, NoMsg)

\* unexpectedFrame as it would be if it took the frame for the header of a
\* message nobody announced instead of throwing.
UnexpectedFrame_TakesHeader(h, f) ==
  Step([h EXCEPT !.st = "content", !.remaining = f.size], "none", FALSE, NoMsg)

UnexpectedFrame(h, f) == Step(h, "Unannounced message frame", FALSE, NoMsg)

HandleMessage(h, f) ==
  CASE h.st = "unexpectedFrame" -> UnexpectedFrame(h, f)
    [] h.st = "headers"         -> HeadersState(h, f)
    [] h.st = "content"         -> ContentState(h, f)


\* ------------------------------------------------------ the deferreds
\* The .then callback of _rpc as it would be without the test of f.id.
OnResolved_NoIdTest(r, f) ==
  [r EXCEPT !.out = "resolved",
            !.outval = [what |-> "frame", id |-> f.id, msg |-> NoMsg]]

\* The .then callback of get as it would be without its final else: every
\* reply but BasicGetEmpty is taken to announce a message.
OnResolved_GetNoElse(r, f) ==
  IF r.kind = "get"
  THEN IF f.id = "BasicGetEmpty"
       THEN [r EXCEPT !.out = "resolved",
                      !.outval = [what |-> "false", id |-> "", msg |-> NoMsg]]
       ELSE r
  ELSE IF f.id = r.expect
       THEN [r EXCEPT !.out = "resolved",
                      !.outval = [what |-> "frame", id |-> f.id, msg |-> NoMsg]]
       ELSE [r EXCEPT !.out = "rejected",
                      !.outval = [what |-> "error", id |-> "Expected", msg |-> NoMsg]]

\* The .then callback as it would be on a deferred that queues its callbacks
\* for a later turn: the step that resolves the deferred leaves the promise
\* the call returned open.
OnResolved_LaterTurn(r, f) == r

\* What the .then callback chained on an RPC's deferred does with the frame
\* it is resolved with: the outcome of the promise the call returned.
\*   _rpc, rpc, createChannel, consume: the frame if its id is the expected
\*   one, else an error; get: false for BasicGetEmpty, left open for
\*   BasicGetOk (until the message is complete), else an error.
OnResolved(r, f) ==
  IF r.kind = "get"
  THEN IF f.id = "BasicGetEmpty"
       THEN [r EXCEPT !.out = "resolved",
                      !.outval = [what |-> "false", id |-> "", msg |-> NoMsg]]
       ELSE IF f.id = "BasicGetOk"
       THEN r
       ELSE [r EXCEPT !.out = "rejected",
                      !.outval = [what |-> "error", id |-> "Unexpected response to BasicGet",
                                  msg |-> NoMsg]]
  ELSE IF f.id = r.expect
       THEN [r EXCEPT !.out = "resolved",
                      !.outval = [what |-> "frame", id |-> f.id, msg |-> NoMsg]]
       ELSE [r EXCEPT !.out = "rejected",
                      !.outval = [what |-> "error", id |-> "Expected", msg |-> NoMsg]]

\* reply.resolve(f) on the deferred of RPC i, as the n-th reply frame the
\* channel dispatched: settles it (once) and runs its callback synchronously.
Resolve(rs, i, f, n) ==
  LET r == [rs[i] EXCEPT !.replied = TRUE, !.rix = IF rs[i].replied THEN @ ELSE n]
  IN  IF r.st = "unsettled"
      THEN [rs EXCEPT ![i] = OnResolved([r EXCEPT !.st = "resolved"], f)]
      ELSE [rs EXCEPT ![i] = r]

\* reply.reject(e) on the deferred of RPC i: the rejection passes through the
\* .then callback to the promise the call returned, with e as its reason.
Reject(rs, i, e) ==
  IF rs[i].st = "unsettled"
  THEN [rs EXCEPT ![i] = [@ EXCEPT !.st = "rejected", !.out = "rejected",
                             !.outval = [what |-> "error", id |-> e,
                                         msg |-> NoMsg]]]
  ELSE rs

RECURSIVE RejectAll(_, _, _)
RejectAll(rs, ids, e) ==
  IF ids = << >> THEN rs ELSE RejectAll(Reject(rs, Head(ids), e), Tail(ids), e)

\* The RPCs among ids (in order) that a settling call newly settles.
RECURSIVE Unsettled(_, _)
Unsettled(rs, ids) ==
  IF ids = << >> THEN << >>
  ELSE (IF rs[Head(ids)].st = "unsettled" THEN <<Head(ids)>> ELSE << >>)
         \o Unsettled(rs, Tail(ids))

\* delivery.resolve(m) in get's continuation: the promise get returned is
\* resolved with the message.
ResolveDelivery(rs, i, m) ==
  IF rs[i].out = "unsettled"
  THEN [rs EXCEPT ![i] = [@ EXCEPT !.out = "resolved",
                             !.outval = [what |-> "message", id |-> "", msg |-> m]]]
  ELSE rs

\* The events the channel has emitted to the application: Channel is a plain
\* object with no emitter, and nothing in it emits.
Emitted == {}

\* The channel numbers freshChannel hands out on one connection.
Channels == {1, 2}

\* new Channel(connection, ch): the fields of a channel just constructed,
\* with the RPCs issued and the frames written on it.
NewChannel ==
  [reply |-> 0, pending |-> << >>, consumers |-> {}, hm |-> Idle,
   rpcs |-> << >>, wire |-> << >>, delivered |-> << >>, settled |-> << >>]

\* ------------------------------------------------------------ actions
Init ==
  /\ reply = 0
  /\ pending = << >>
  /\ consumers = {}
  /\ hm = Idle
  /\ rpcs = << >>
  /\ wire = << >>
  /\ delivered = << >>
  /\ settled = << >>
  /\ thrown = "none"
  /\ rest = << >>
  /\ readable = << >>
  /\ socket = << >>
  /\ received = << >>
  /\ ret = "none"
  /\ cur = 1
  /\ chans = [c \in Channels |-> NewChannel]

\* The application holds the channel once createChannel's promise resolved.
Opened == Len(rpcs) >= 1 /\ rpcs[1].out = "resolved"

\* sendOrEnqueue as it would be without the test of this.reply, queueing
\* every RPC.
SendOrEnqueue_AlwaysEnqueue(kind) ==
  /\ pending' = Append(pending, [method |-> MethodOf(kind), reply |-> Len(rpcs) + 1])
  /\ rpcs' = Append(rpcs, NewRpc(kind))
  /\ thrown' = "none"
  /\ UNCHANGED <<reply, wire>>

\* sendOrEnqueue as it would be without the test of this.reply, sending
\* every RPC at once.
SendOrEnqueue_AlwaysSend(kind) ==
  /\ reply' = Len(rpcs) + 1
  /\ wire' = SendImmediately(wire, MethodOf(kind), Len(rpcs) + 1)
  /\ rpcs' = Append(rpcs, [NewRpc(kind) EXCEPT !.sent = TRUE])
  /\ thrown' = "none"
  /\ UNCHANGED pending

\* sendOrEnqueue(method, fields, reply) for the fresh RPC of the given kind.
SendOrEnqueue(kind) ==
  LET i == Len(rpcs) + 1
  IN  IF reply = 0 /\ pending # << >>
      THEN \* assert(this.pending.length === 0) fails: the call throws
           /\ thrown' = "AssertionError"
           /\ UNCHANGED <<reply, pending, rpcs, wire>>
      ELSE IF reply = 0
      THEN /\ reply' = i
           /\ wire' = SendImmediately(wire, MethodOf(kind), i)
           /\ rpcs' = Append(rpcs, [NewRpc(kind) EXCEPT !.sent = TRUE])
           /\ thrown' = "none"
           /\ UNCHANGED pending
      ELSE /\ pending' = Append(pending, [method |-> MethodOf(kind), reply |-> i])
           /\ rpcs' = Append(rpcs, NewRpc(kind))
           /\ thrown' = "none"
           /\ UNCHANGED <<reply, wire>>

\* ChannelModel.createChannel: a new Channel, then rpc(ChannelOpen).
CreateChannel ==
  /\ rpcs = << >>
  /\ SendOrEnqueue("open")
  /\ UNCHANGED <<consumers, hm, delivered, settled>>
  /\ UNCHANGED codecVars
  /\ UNCHANGED connVars

\* rpc / _rpc (kind "rpc"), consume and get, called by the application.
Issue(kind, max) ==
  /\ Opened
  /\ Len(rpcs) < max
  /\ SendOrEnqueue(kind)
  /\ UNCHANGED <<consumers, hm, delivered, settled>>
  /\ UNCHANGED codecVars
  /\ UNCHANGED connVars


\* dispatchMessage as it would be if it looked the callback up under
\* message.consumerTag (the key its error message reads), which no message
\* has: no callback is ever found.
KnownConsumer_MessageTag(tag) == "undefined" \in consumers

\* dispatchMessage(consumerTag, message) has a callback to call.
KnownConsumer(tag) == tag \in consumers

\* handle(f), cases BasicDeliver, undefined (a content frame) and
\* BasicProperties: this.handleMessage = this.handleMessage(f), with
\* handleMessage primed to acceptDelivery first when f is a BasicDeliver.
HandleMessageFrame(f) ==
  LET res == IF f.id = "BasicDeliver"
             THEN Step(AcceptDelivery(f), "none", FALSE, NoMsg)
             ELSE HandleMessage(hm, f)
  IN  /\ f.id = "BasicDeliver" => Len(delivered) < MaxMsgs
      /\ (f.id = "undefined" /\ hm.st = "content") =>
            /\ Len(hm.buffers) <= MaxBuffers
            /\ hm.remaining - Len(f.content) >= -MaxChunk
      /\ IF res.err # "none"
         THEN \* the state function threw: handleMessage is not assigned
              /\ thrown' = res.err
              /\ hm' = res.next
              /\ UNCHANGED <<rpcs, delivered, consumers>>
         ELSE IF ~res.done
         THEN /\ thrown' = "none"
              /\ hm' = res.next
              /\ UNCHANGED <<rpcs, delivered, consumers>>
         ELSE IF hm.kind = "get"
         THEN \* continuation of get: delivery.resolve(m)
              /\ rpcs' = ResolveDelivery(rpcs, hm.rpc, res.msg)
              /\ hm' = Idle
              /\ thrown' = "none"
              /\ UNCHANGED <<delivered, consumers>>
         ELSE IF KnownConsumer(hm.fields)
         THEN \* continuation of acceptDelivery: the consumer's callback
              /\ delivered' = Append(delivered, res.msg)
              /\ hm' = Idle
              /\ thrown' = "none"
              /\ UNCHANGED <<rpcs, consumers>>
         ELSE \* dispatchMessage throws: handleMessage is not assigned
              /\ thrown' = "Unknown consumer"
              /\ hm' = res.next
              /\ UNCHANGED <<rpcs, delivered, consumers>>
      /\ UNCHANGED <<reply, pending, wire, settled>>

\* handle(f), cases BasicAck, BasicNack, BasicCancel and BasicReturn: throws.
HandleNotImplemented(f) ==
  /\ thrown' = CASE f.id \in {"BasicAck", "BasicNack"} -> "Confirmations not implemented"
                 [] f.id = "BasicCancel" -> "Unexpected consumer cancel notification"
                 [] f.id = "BasicReturn" -> "I don't handle returns yet"
  /\ UNCHANGED <<reply, pending, consumers, hm, rpcs, wire, delivered, settled>>

\* The ChannelCloseOk frames written so far.
CloseOksSent == Cardinality({k \in 1..Len(wire) : wire[k].method = "ChannelCloseOk"})

\* The queue as ChannelClose would see it if it rejected the reply alone.
PendingIds_None == << >>

\* The queue as ChannelClose would walk it from its newest entry back.
PendingIds_Reversed == [k \in 1..Len(pending) |-> pending[Len(pending) + 1 - k].reply]

\* this.pending, as the deferreds its forEach walks, in order.
PendingIds == [k \in 1..Len(pending) |-> pending[k].reply]

\* handle(f), case ChannelClose: reject the outstanding RPC, send
\* ChannelCloseOk, reject the queued RPCs, then call this.cleanup(), which
\* Channel does not define: the call throws a TypeError after the rejections,
\* and reply and pending are left as they were. The error e is built only
\* when there is an outstanding RPC; otherwise the queued ones would be
\* rejected with the undefined value of the hoisted variable.
HandleChannelClose(f) ==
  LET ids == (IF reply # 0 THEN <<reply>> ELSE << >>) \o PendingIds
      e   == IF reply # 0 THEN "Channel closed" ELSE "undefined"
  IN  /\ CloseOksSent < MaxClose
      /\ rpcs' = RejectAll(rpcs, ids, e)
      /\ settled' = settled \o Unsettled(rpcs, ids)
      /\ wire' = SendImmediately(wire, "ChannelCloseOk", 0)
      /\ thrown' = "TypeError"
      /\ UNCHANGED <<reply, pending, consumers, hm, delivered>>

\* this.pending.shift(): the head of the queue and what is left of it.
ShiftLast(p) == [item |-> p[Len(p)], rest |-> SubSeq(p, 1, Len(p) - 1)]

Shift(p) == [item |-> Head(p), rest |-> Tail(p)]

\* The channel as reply.resolve(f) would find it if the deferred were
\* resolved first, before the slot is cleared and the queue advanced.
BeforeResolve_ResolveFirst == [reply |-> reply, pending |-> pending, wire |-> wire]

\* handle(f), default case, at the call of reply.resolve(f): the slot, the
\* queue and the frames written, as the resolution callbacks find them.
BeforeResolve ==
  IF pending # << >>
  THEN [reply   |-> Shift(pending).item.reply,
        pending |-> Shift(pending).rest,
        wire    |-> SendImmediately(wire, Shift(pending).item.method,
                                    Shift(pending).item.reply)]
  ELSE [reply |-> 0, pending |-> pending, wire |-> wire]

\* handle(f), default case: f is taken for the reply to the outstanding RPC.
\* The slot is cleared, the head of the queue (if any) takes it and is sent,
\* and then the old deferred is resolved with f, which runs its callback:
\* consume registers its callback under the tag of BasicConsumeOk, get primes
\* the trampoline on BasicGetOk.
HandleReply(f) ==
  LET r    == reply
      n    == Cardinality({i \in 1..Len(rpcs) : rpcs[i].replied}) + 1
      live == r # 0 /\ rpcs[r].st = "unsettled"
      send == Shift(pending).item
      rs1  == IF pending # << >>
              THEN [rpcs EXCEPT ![send.reply] = [@ EXCEPT !.sent = TRUE]]
              ELSE rpcs
  IN  /\ reply' = BeforeResolve.reply
      /\ pending' = BeforeResolve.pending
      /\ wire' = BeforeResolve.wire
      /\ IF r = 0
         THEN \* reply is null: reply.resolve(f) throws a TypeError
              /\ thrown' = "TypeError"
              /\ rpcs' = rs1
              /\ UNCHANGED <<consumers, hm, settled>>
         ELSE /\ thrown' = "none"
              /\ rpcs' = Resolve(rs1, r, f, n)
              /\ settled' = IF live THEN Append(settled, r) ELSE settled
              /\ consumers' = IF live /\ rpcs[r].kind = "consume" /\ f.id = "BasicConsumeOk"
                              THEN consumers \cup {f.tag} ELSE consumers
              /\ hm' = IF live /\ rpcs[r].kind = "get" /\ f.id = "BasicGetOk"
                       THEN AcceptMessage("get", "BasicGetOk", r) ELSE hm
      /\ UNCHANGED delivered

\* Channel.prototype.handle(f): the switch on f.id.
Handle(f) ==
  CASE f.id \in {"BasicDeliver", "undefined", "BasicProperties"} -> HandleMessageFrame(f)
    [] f.id \in {"BasicAck", "BasicNack", "BasicCancel", "BasicReturn"} -> HandleNotImplemented(f)
    [] f.id = "ChannelClose" -> HandleChannelClose(f)
    [] OTHER -> HandleReply(f)

\* The connection hands the channel its frames once the channel exists.
Receive(frames) ==
  \E f \in frames : rpcs # << >> /\ Handle(f) /\ UNCHANGED <<codecVars, connVars>>

Kinds == {"rpc", "consume", "get"}

\* The RPC discipline: up to MaxRpc RPCs, every reply and ChannelClose, and
\* the content frames of the empty message a get may be answered with.
RpcFrames ==
  ReplyFrames \cup CloseFrames
    \cup {f \in HeaderFrames : f.size = 0}
    \cup {f \in BodyFrames : f.content = << >>}

Next ==
  \/ CreateChannel
  \/ \E kind \in Kinds : Issue(kind, MaxRpc)
  \/ Receive(RpcFrames)

Spec == Init /\ [][Next]_vars

\* Message reassembly: every message frame and every reply, on a channel on
\* which the application makes one call once it is open: the consume, get or
\* rpc that the messages overlap.
FirstCall(kind) == Len(rpcs) = 1 /\ Issue(kind, MaxRpc)

MsgFrames == DeliverFrames \cup HeaderFrames \cup BodyFrames \cup ReplyFrames

NextMsg ==
  \/ CreateChannel
  \/ \E kind \in Kinds : FirstCall(kind)
  \/ Receive(MsgFrames)

SpecMsg == Init /\ [][NextMsg]_vars

\* The open handshake: createChannel and every frame the peer can send,
\* on a channel on which the application makes no further call.
AllFrames ==
  ReplyFrames \cup CloseFrames \cup NotImplFrames
    \cup DeliverFrames \cup HeaderFrames \cup BodyFrames

NextOpen ==
  \/ CreateChannel
  \/ Receive(AllFrames)

SpecOpen == Init /\ [][NextOpen]_vars

\* ------------------------------------------------- closing the channel
\* ch.close(), called by the application on an open channel: Channel and its
\* prototype define no close, so the call itself throws a TypeError; nothing
\* is sent and no deferred is touched.
Close ==
  /\ Opened
  /\ thrown' = "TypeError: close is not a function"
  /\ UNCHANGED <<reply, pending, consumers, hm, rpcs, wire, delivered, settled>>
  /\ UNCHANGED codecVars
  /\ UNCHANGED connVars

\* The connection closes: it calls stop() and then toClosed() on the channel
\* it registered with freshChannel.  Channel defines neither: the call of
\* stop throws a TypeError, toClosed is not reached, and the channel is left
\* as it was.
ConnectionClosed ==
  /\ rpcs # << >>
  /\ thrown' = "TypeError: stop is not a function"
  /\ UNCHANGED <<reply, pending, consumers, hm, rpcs, wire, delivered, settled>>
  /\ UNCHANGED codecVars
  /\ UNCHANGED connVars

\* The close paths: the RPC discipline with one RPC fewer, ChannelClose from
\* the peer, close() by the application and the connection going away.
CloseRpcs == MaxRpc - 1

NextClose ==
  \/ CreateChannel
  \/ \E kind \in Kinds : Issue(kind, CloseRpcs)
  \/ Receive(ReplyFrames \cup CloseFrames)
  \/ Close
  \/ ConnectionClosed

SpecClose == Init /\ [][NextClose]_vars

\* ------------------------------------------------------------ publishing
\* The octets a frame adds around its payload.
FRAME_OVERHEAD == 8

\* The values of frameMax: they leave one or two octets of payload a frame.
FrameMaxes == {FRAME_OVERHEAD + 1, FRAME_OVERHEAD + 2}

\* The bodies published.
Bodies == SeqsUpTo(MaxBody)

\* encodeToFrame of the content header and makeBodyFrame(channel, payload),
\* as the frames they put on the channel.
MakeHeaderFrame(props, size) ==
  [method |-> "BasicProperties", rpc |-> 0, size |-> size, props |-> props]

MakeBodyFrame(payload) == [method |-> "undefined", rpc |-> 0, content |-> payload]

\* The test of sendContent's loop, `i < body.length`: no scope declares i, so
\* evaluating it throws a ReferenceError, whatever offset and body are.
LoopTest(offset, body) == "ReferenceError"

\* The loop of sendContent from the given offset, writing to the frames w:
\* the frames written when it ends and the error that ended it.
RECURSIVE BodyLoop(_, _, _, _)
BodyLoop(w, body, maxBody, offset) ==
  LET t     == LoopTest(offset, body)
      end   == offset + maxBody
      slice == IF end > Len(body) THEN SubSeq(body, offset + 1, Len(body))
                                  ELSE SubSeq(body, offset + 1, end)
  IN  IF t = "ReferenceError" THEN [frames |-> w, err |-> "ReferenceError"]
      ELSE IF t = "false" THEN [frames |-> w, err |-> "none"]
      ELSE BodyLoop(Append(w, MakeBodyFrame(slice)), body, maxBody, offset + maxBody)

\* connection.sendContent(ch, BasicProperties, properties, content): the
\* content header, then the body through the codec's loop.
ConnectionSendContent(w, props, content, frameMax) ==
  BodyLoop(Append(w, MakeHeaderFrame(props, Len(content))), content,
           frameMax - FRAME_OVERHEAD, 0)

\* The messages published so far.
Published == Cardinality({k \in 1..Len(wire) : wire[k].method = "BasicPublish"})

\* sendMessage(fields, properties, content), called by the application on an
\* open channel: BasicPublish at once, then the content.
SendMessage(props, content, frameMax) ==
  LET sent == ConnectionSendContent(SendImmediately(wire, "BasicPublish", 0),
                                    props, content, frameMax)
  IN  /\ Opened
      /\ Published < MaxPub
      /\ wire' = sent.frames
      /\ thrown' = sent.err
      /\ UNCHANGED <<reply, pending, consumers, hm, rpcs, delivered, settled>>
      /\ UNCHANGED codecVars
      /\ UNCHANGED connVars

NextPub ==
  \/ CreateChannel
  \/ \E kind \in Kinds : FirstCall(kind)
  \/ Receive(ReplyFrames)
  \/ \E props \in Props, content \in Bodies, frameMax \in FrameMaxes :
       SendMessage(props, content, frameMax)

SpecPub == Init /\ [][NextPub]_vars

\* ------------------------------------------------------------ confirms
\* The promises of the publishes made on the channel, in delivery-tag order:
\* sendMessage returns what connection.sendContent returns and the channel
\* keeps no record of a publish.
Confirms == << >>

\* Publishing with acks and nacks coming back from the peer, on a channel on
\* which the application makes one call besides.
NextConfirm ==
  \/ CreateChannel
  \/ \E kind \in Kinds : FirstCall(kind)
  \/ Receive(ReplyFrames \cup NotImplFrames)
  \/ \E props \in Props, content \in Bodies, frameMax \in FrameMaxes :
       SendMessage(props, content, frameMax)

SpecConfirm == Init /\ [][NextConfirm]_vars

\* ------------------------------------------------------ the frame codec
\* The frame types and the frame-end octet of AMQP 0-9-1, which frame.js
\* takes from the constants of defs.
FRAME_METHOD == 1
FRAME_HEADER == 2
FRAME_BODY == 3
HEARTBEAT == 8
FRAME_END == 206

\* Unsigned big-endian integers of 16, 32 and 64 bits, as bitsyntax writes
\* and reads them; the values written here stay below 2^31, so the upper
\* word of a 64-bit integer is zero.
U16(n) == <<(n \div 256) % 256, n % 256>>
U32(n) == U16((n \div 65536) % 65536) \o U16(n % 65536)
U64(n) == U32(0) \o U32(n)

RECURSIVE Unsigned(_)
Unsigned(b) ==
  IF b = << >> THEN 0 ELSE 256 * Unsigned(SubSeq(b, 1, Len(b) - 1)) + b[Len(b)]

\* A frame on the wire: type, channel, size, payload and the closing octet.
EncodeFrame(type, channel, payload, end) ==
  <<type>> \o U16(channel) \o U32(Len(payload)) \o payload \o <<end>>

\* framePattern(buf): the parts of the frame buf starts with, or no match
\* (false) when buf is shorter than the envelope its size field announces or
\* the octet after the payload is not FRAME_END.
NoMatch ==
  [ok |-> FALSE, type |-> 0, channel |-> 0, size |-> 0, payload |-> << >>, rest |-> << >>]

FramePattern(buf) ==
  IF Len(buf) < 7 THEN NoMatch
  ELSE LET size == Unsigned(SubSeq(buf, 4, 7))
       IN  IF Len(buf) < 8 + size THEN NoMatch
           ELSE IF buf[8 + size] # FRAME_END THEN NoMatch
           ELSE [ok |-> TRUE, type |-> buf[1],
                 channel |-> Unsigned(SubSeq(buf, 2, 3)), size |-> size,
                 payload |-> SubSeq(buf, 8, 7 + size),
                 rest |-> SubSeq(buf, 9 + size, Len(buf))]

\* What recvFrame hands back: a decoded frame, false, or an error thrown.
Decoded(what, channel, id, size, data) ==
  [what |-> what, channel |-> channel, id |-> id, size |-> size, data |-> data]
NoFrame == Decoded("none", 0, 0, 0, << >>)
Returns(value) == [err |-> "none", ret |-> "frame", value |-> value]
ReturnsFalse == [err |-> "none", ret |-> "false", value |-> NoFrame]
Throws(e) == [err |-> e, ret |-> "threw", value |-> NoFrame]

\* decodeFrame(frame): a method with its id and argument octets, a content
\* header with its class, body size and property octets, undefined for a
\* body frame, the heartbeat, or an error for any other type.  A payload too
\* short for methodPattern or headerPattern leaves nothing to build from.
DecodeFrame(frame) ==
  CASE frame.type = FRAME_METHOD ->
         IF Len(frame.payload) < 4 THEN Throws("TypeError")
         ELSE Returns(Decoded("method", frame.channel,
                              Unsigned(SubSeq(frame.payload, 1, 4)), 0,
                              SubSeq(frame.payload, 5, Len(frame.payload))))
    [] frame.type = FRAME_HEADER ->
         IF Len(frame.payload) < 12 THEN Throws("TypeError")
         ELSE Returns(Decoded("properties", frame.channel,
                              Unsigned(SubSeq(frame.payload, 1, 2)),
                              Unsigned(SubSeq(frame.payload, 5, 12)),
                              SubSeq(frame.payload, 13, Len(frame.payload))))
    [] frame.type = FRAME_BODY -> Returns(Decoded("undefined", 0, 0, 0, << >>))
    [] frame.type = HEARTBEAT -> Returns(Decoded("heartbeat", 0, 0, 0, << >>))
    [] OTHER -> Throws("Unknown frame type")

\* recvFrame() on the buffer buf with rd waiting in the stream: match, or
\* read what the stream holds and try again, or return false when the
\* stream holds nothing.
RECURSIVE RecvFrameFrom(_, _)
RecvFrameFrom(buf, rd) ==
  LET frame == FramePattern(buf)
  IN  IF ~frame.ok
      THEN IF rd = << >>
           THEN [rest |-> buf, readable |-> rd, out |-> ReturnsFalse]
           ELSE RecvFrameFrom(buf \o rd, << >>)
      ELSE [rest |-> frame.rest, readable |-> rd, out |-> DecodeFrame(frame)]

\* Frames.prototype.recvFrame, called by the owner of the Frames object.
RecvFrame ==
  LET r == RecvFrameFrom(rest, readable)
  IN  /\ rest' = r.rest
      /\ readable' = r.readable
      /\ ret' = r.out.ret
      /\ thrown' = r.out.err
      /\ received' = IF r.out.ret = "frame" THEN Append(received, r.out.value)
                     ELSE received
      /\ UNCHANGED socket
      /\ UNCHANGED chanVars
      /\ UNCHANGED connVars

\* The stream takes in the next octets the peer wrote, in a chunk of any
\* length.
Arrive ==
  \E n \in 1..Len(socket) :
    /\ readable' = readable \o SubSeq(socket, 1, n)
    /\ socket' = SubSeq(socket, n + 1, Len(socket))
    /\ UNCHANGED <<rest, received, ret, thrown>>
    /\ UNCHANGED chanVars
    /\ UNCHANGED connVars

\* The frames a peer writes: a method (ChannelOpenOk), a content header for
\* one octet of body, body frames whose payload may hold the frame-end
\* octet, a heartbeat and a frame of a type the protocol does not have;
\* methods and bodies closed by the frame-end octet or by another one.
MaxFrames == 2
UnknownType == 9
EndOctets == {FRAME_END, 0}
Payloads_Method == {U32(20 * 65536 + 11)}
Payloads_Header == {U16(60) \o U16(0) \o U64(1) \o U16(0)}
Payloads_Body == {<< >>, <<FRAME_END>>}
WireFrames ==
  {EncodeFrame(FRAME_METHOD, 1, p, e) : p \in Payloads_Method, e \in EndOctets}
    \cup {EncodeFrame(FRAME_HEADER, 1, p, FRAME_END) : p \in Payloads_Header}
    \cup {EncodeFrame(FRAME_BODY, 1, p, e) : p \in Payloads_Body, e \in EndOctets}
    \cup {EncodeFrame(HEARTBEAT, 0, << >>, FRAME_END),
          EncodeFrame(UnknownType, 1, << >>, FRAME_END)}

RECURSIVE StreamsOf(_)
StreamsOf(n) ==
  IF n = 0 THEN {<< >>}
  ELSE {f \o s : f \in WireFrames, s \in StreamsOf(n - 1)}

Streams == UNION {StreamsOf(n) : n \in 1..MaxFrames}

\* A Frames object on a fresh stream to which the peer has written some
\* frames; no channel is in play.
InitCodec ==
  /\ reply = 0
  /\ pending = << >>
  /\ consumers = {}
  /\ hm = Idle
  /\ rpcs = << >>
  /\ wire = << >>
  /\ delivered = << >>
  /\ settled = << >>
  /\ thrown = "none"
  /\ rest = << >>
  /\ readable = << >>
  /\ socket \in Streams
  /\ received = << >>
  /\ ret = "none"
  /\ cur = 1
  /\ chans = [c \in Channels |-> NewChannel]

NextCodec ==
  \/ Arrive
  \/ RecvFrame

SpecCodec == InitCodec /\ [][NextCodec]_vars

\* ------------------------------------------- channels of one connection
\* The fields of the channel the variables hold.
This ==
  [reply |-> reply, pending |-> pending, consumers |-> consumers, hm |-> hm,
   rpcs |-> rpcs, wire |-> wire, delivered |-> delivered, settled |-> settled]

\* The fields of channel c.
View(c) == IF c = cur THEN This ELSE chans[c]

\* The callback createChannel registers with freshChannel, as it would be
\* if its variable c were shared by all calls: every frame goes to the
\* channel at hand, whatever its channel number.
Route_Shared(c) == cur

\* The channel whose handle() the connection calls for a frame that carries
\* channel number c: the callback registered for c closes over its own
\* Channel.
Route(c) == c

\* The connection turns to another of its channels: the fields at hand are
\* put away under their channel number and those of channel c taken up.
\* No field of any channel changes.
SwitchChannel ==
  \E c \in Channels \ {cur} :
    /\ cur' = c
    /\ chans' = [chans EXCEPT ![cur] = This, ![c] = NewChannel]
    /\ reply' = chans[c].reply
    /\ pending' = chans[c].pending
    /\ consumers' = chans[c].consumers
    /\ hm' = chans[c].hm
    /\ rpcs' = chans[c].rpcs
    /\ wire' = chans[c].wire
    /\ delivered' = chans[c].delivered
    /\ settled' = chans[c].settled
    /\ UNCHANGED thrown
    /\ UNCHANGED codecVars

\* The connection hands frame f, which carries channel number c, to the
\* callback registered for c.
Dispatch(c, f) ==
  /\ Route(c) = cur
  /\ rpcs # << >>
  /\ Handle(f)
  /\ UNCHANGED <<codecVars, connVars>>

\* Two channels side by side: each is opened, makes up to two further rpc
\* calls and receives ChannelOpenOk (the reply to its open and a reply of
\* the wrong id to its other RPCs), ChannelClose, deliveries and body
\* frames that are out of sequence wherever they arrive.
ConnRpcs == MaxRpc - 1
ConnFrames ==
  {f \in ReplyFrames : f.id = "ChannelOpenOk"}
    \cup CloseFrames
    \cup {f \in DeliverFrames : f.tag \in ConsumerTags}
    \cup {f \in BodyFrames : f.content = << >>}

NextConn ==
  \/ CreateChannel
  \/ Issue("rpc", ConnRpcs)
  \/ \E c \in Channels, f \in ConnFrames : Dispatch(c, f)
  \/ SwitchChannel

SpecConn == Init /\ [][NextConn]_vars

\* ------------------------------------------------------ a replying peer
\* The peer closed the channel after request i reached it: a ChannelCloseOk
\* was written after the request.
Excused(i) ==
  \E k, c \in 1..Len(wire) :
    /\ wire[k].rpc = i
    /\ k < c
    /\ wire[c].method = "ChannelCloseOk"

\* The requests the peer received and has neither answered nor closed the
\* channel on.
Awaited == {i \in InFlight : ~Excused(i)}

\* The peer answers a request it owes an answer to with a reply frame.
PeerAnswers ==
  /\ Awaited # {}
  /\ Receive(ReplyFrames)

\* The peer closes the channel.
PeerCloses == Receive(CloseFrames)

\* The application's calls and a peer that sends nothing unasked but
\* ChannelClose, and that leaves no request for ever without a reply unless
\* it closed the channel after receiving it.
NextLive ==
  \/ CreateChannel
  \/ \E kind \in Kinds : Issue(kind, MaxRpc)
  \/ PeerAnswers
  \/ PeerCloses

SpecLive == Init /\ [][NextLive]_vars /\ WF_vars(PeerAnswers)

\* ================================================================ claims

\* ---------------------------------------------------------------- C1
\* C1: in every reachable state of the channel, an empty reply slot implies
\* an empty pending queue (reply == null => pending.length == 0).
C1_ReplySlotInvariant == reply = 0 => pending = << >>

\* C1 witness: RPCs were queued behind an outstanding one, every reply came
\* and the slot is empty again.
C1_Witness ==
  /\ Len(rpcs) = MaxRpc
  /\ \A i \in 1..Len(rpcs) : rpcs[i].replied
  /\ reply = 0
  /\ pending = << >>

\* ---------------------------------------------------------------- C2
\* C2: at most one RPC is in flight: the RPC request frames written for
\* which no reply frame has been handled number at most 1.
C2_AtMostOneInFlight == Cardinality(InFlight) <= 1

\* C2 witness: three RPCs issued back-to-back: one in flight, two queued.
C2_Witness ==
  /\ Cardinality(InFlight) = 1
  /\ Len(pending) = 2

\* ---------------------------------------------------------------- C3
\* The RPCs whose request frame was written, in the order of the writes.
RECURSIVE SentRpcs(_)
SentRpcs(w) ==
  IF w = << >> THEN << >>
  ELSE (IF Head(w).rpc # 0 THEN <<Head(w).rpc>> ELSE << >>) \o SentRpcs(Tail(w))

\* C3: RPCs are written to the connection in issuance order, the k-th issued
\* RPC is the one handed the k-th reply frame, and the deferreds are settled
\* in issuance order.
C3_FifoOrder ==
  /\ \A k \in 1..Len(SentRpcs(wire)) : SentRpcs(wire)[k] = k
  /\ \A i \in 1..Len(rpcs) : rpcs[i].replied => rpcs[i].rix = i
  /\ \A k \in 1..(Len(settled) - 1) : settled[k] < settled[k + 1]

\* C3 witness: createChannel and three RPCs, each answered in turn with the
\* reply it expects, all resolved.
C3_Witness ==
  /\ Len(rpcs) = 4
  /\ \A i \in 1..4 : rpcs[i].st = "resolved" /\ rpcs[i].rix = i
  /\ \A i \in 2..4 : rpcs[i].kind = "rpc" /\ rpcs[i].out = "resolved"
  /\ settled = <<1, 2, 3, 4>>

\* ---------------------------------------------------------------- C4
\* The calls built on _rpc: rpc, createChannel and consume.
RpcKinds == {"open", "rpc", "consume"}

\* C4: when a reply frame is handed to an outstanding _rpc, its promise is
\* resolved with that frame if the frame's id is the expected id and rejected
\* with the mismatch error otherwise; it is never resolved with a frame of
\* another id.
C4_ReplyIdDecides ==
  [][\A f \in ReplyFrames :
       (/\ reply # 0
        /\ rpcs[reply].st = "unsettled"
        /\ rpcs[reply].kind \in RpcKinds
        /\ HandleReply(f))
       => LET r == rpcs'[reply]
          IN  IF f.id = rpcs[reply].expect
              THEN r.out = "resolved" /\ r.outval = [what |-> "frame", id |-> f.id, msg |-> NoMsg]
              ELSE r.out = "rejected" /\ r.outval.what = "error" /\ r.outval.id = "Expected"]_vars

\* C4 witness: one _rpc resolved with its expected reply and another rejected
\* for a reply of a different id.
C4_Witness ==
  \E i, j \in 1..Len(rpcs) :
    /\ rpcs[i].kind \in RpcKinds /\ rpcs[i].out = "resolved"
    /\ rpcs[j].kind \in RpcKinds /\ rpcs[j].out = "rejected" /\ rpcs[j].outval.id = "Expected"

\* ---------------------------------------------------------------- C5
\* C5: once an RPC was rejected for a reply of an unexpected id, the channel
\* has emitted 'error' and has sent ChannelClose to the peer.
C5_MismatchClosesChannel ==
  (\E i \in 1..Len(rpcs) : rpcs[i].out = "rejected" /\ rpcs[i].outval.id = "Expected")
    => /\ "error" \in Emitted
       /\ \E k \in 1..Len(wire) : wire[k].method = "ChannelClose"

\* ---------------------------------------------------------------- C10
\* C10: handling ChannelClose rejects the RPC in the reply slot and every RPC
\* in the pending queue, and leaves no RPC issued so far with an unsettled
\* deferred.
C10_CloseRejectsAll ==
  [][\A f \in CloseFrames :
       HandleChannelClose(f)
       => /\ reply # 0 => rpcs'[reply].st = "rejected" /\ rpcs'[reply].out = "rejected"
          /\ \A k \in 1..Len(pending) :
               /\ rpcs'[pending[k].reply].st = "rejected"
               /\ rpcs'[pending[k].reply].out = "rejected"
          /\ \A i \in 1..Len(rpcs) : rpcs'[i].st # "unsettled"]_vars

\* C10 witness: ChannelClose was handled with one RPC outstanding and two
\* queued, and all three are rejected.
C10_Witness ==
  /\ CloseOksSent = 1
  /\ reply # 0
  /\ Len(pending) = 2
  /\ rpcs[reply].st = "rejected"
  /\ \A k \in 1..2 : rpcs[pending[k].reply].st = "rejected"


\* ---------------------------------------------------------------- C6
\* A body frame completes the message the trampoline is reassembling.
Completes(f) ==
  /\ hm.st = "content"
  /\ f.id = "undefined"
  /\ Len(f.content) = hm.remaining

\* C6: when the body frames of a Deliver reach the bodySize its header
\* declared, exactly one message is emitted, with the Deliver's fields, the
\* header's properties and the body payloads concatenated in arrival order.
C6_ReassemblyEmits ==
  [][\A f \in BodyFrames :
       (hm.kind = "deliver" /\ Completes(f) /\ HandleMessageFrame(f))
       => delivered' = Append(delivered,
                              [fields |-> hm.fields, properties |-> hm.props,
                               content |-> Concat(hm.buffers) \o f.content])]_vars

C8_ReplyInterleavesDelivery ==
  [][\A f \in ReplyFrames :
       (/\ hm.kind = "deliver" /\ hm.st \in {"headers", "content"}
        /\ reply # 0 /\ rpcs[reply].st = "unsettled"
        /\ HandleReply(f))
       => /\ rpcs'[reply].st = "resolved"
          /\ delivered' = delivered
          /\ hm' = hm]_vars

\* ---------------------------------------------------------------- C9
\* C9: a Deliver arriving while the channel still awaits the header or body
\* of a previous Deliver is a channel error: handle raises it, 'error' is
\* emitted, ChannelClose is sent and no new message is started.
C9_SecondDeliverIsError ==
  [][\A f \in DeliverFrames :
       (hm.kind = "deliver" /\ hm.st \in {"headers", "content"} /\ HandleMessageFrame(f))
       => /\ thrown' # "none"
          /\ hm' # AcceptDelivery(f)
          /\ "error" \in Emitted
          /\ \E k \in 1..Len(wire') : wire'[k].method = "ChannelClose"]_vars

\* ---------------------------------------------------------------- C11
\* C11: on an open channel, handling a ChannelClose writes exactly one ChannelCloseOk and closes
\* the channel within that call: the call returns, and it leaves no RPC in
\* the reply slot or in the queue for a later frame to act on.
C11_RemoteCloseHandshake ==
  [][\A f \in CloseFrames :
       (Opened /\ HandleChannelClose(f))
       => /\ wire' = SendImmediately(wire, "ChannelCloseOk", 0)
          /\ thrown' = "none"
          /\ reply' = 0
          /\ pending' = << >>]_vars

\* ---------------------------------------------------------------- C12
\* C12: once an open channel has handled a ChannelClose from the server, it
\* has emitted 'error' to the application.
C12_ServerCloseEmitsError ==
  (Opened /\ CloseOksSent >= 1) => "error" \in Emitted

\* ---------------------------------------------------------------- C14
\* C14: on every path through the close handshake, exactly one of 'close'
\* and 'error' was emitted: not both, not neither.
C14_ExactlyOneCloseOrError ==
  CloseOksSent >= 1 => Cardinality(Emitted \cap {"close", "error"}) = 1

\* ---------------------------------------------------------------- C16
\* C16: once the channel was closed by the peer's ChannelClose, every
\* operation on it (an RPC call, a frame handed to handle) fails at once
\* and writes no frame.
C16_PostCloseRejection ==
  [][CloseOksSent >= 1 => (thrown' # "none" /\ wire' = wire)]_vars

\* ---------------------------------------------------------------- C13
\* The RPCs the channel holds: the one in the reply slot and the queued ones.
Held == (IF reply # 0 THEN {reply} ELSE {}) \cup {pending[k].reply : k \in 1..Len(pending)}

\* C13: a call of close() on an open channel returns, having written
\* ChannelClose and rejected the RPC in flight and every queued RPC.
C13_LocalClose ==
  [][Close
     => /\ thrown' = "none"
        /\ wire' = SendImmediately(wire, "ChannelClose", 0)
        /\ \A i \in Held : rpcs'[i].out = "rejected"]_vars

\* ---------------------------------------------------------------- C15
\* C15: when close() and a ChannelClose from the peer follow one another, in
\* either order, the peer's ChannelClose has been answered with the one
\* ChannelCloseOk of the exchange and exactly one of 'close' and 'error' was
\* emitted.
C15_CloseRace ==
  [][\A f \in CloseFrames :
       (\/ thrown = "TypeError: close is not a function" /\ HandleChannelClose(f)
        \/ CloseOksSent >= 1 /\ Close)
       => /\ CloseOksSent' = 1
          /\ Cardinality(Emitted \cap {"close", "error"}) = 1]_vars

\* ---------------------------------------------------------------- C17
\* C17: when the connection closes, the channel's RPC in flight and its
\* queued RPCs are rejected, no frame is written on the channel, and the
\* channel has emitted 'close'.
C17_ConnectionTeardown ==
  [][ConnectionClosed
     => /\ \A i \in Held : rpcs'[i].out = "rejected"
        /\ wire' = wire
        /\ "close" \in Emitted]_vars

\* ---------------------------------------------------------------- C18
\* The frames a call wrote on the channel.
Written == SubSeq(wire', Len(wire) + 1, Len(wire'))

\* C18: the frames a publish writes are the BasicPublish method frame, then
\* exactly one content header frame, then body frames and nothing else, with
\* at least one body frame when the body is not empty.
C18_PublishFrameOrder ==
  [][\A props \in Props, content \in Bodies, frameMax \in FrameMaxes :
       SendMessage(props, content, frameMax)
       => /\ Len(Written) >= 2
          /\ Written[1].method = "BasicPublish"
          /\ Written[2] = MakeHeaderFrame(props, Len(content))
          /\ \A k \in 3..Len(Written) : Written[k].method = "undefined"
          /\ content # << >> => Len(Written) >= 3]_vars

\* ---------------------------------------------------------------- C19
\* The payloads of the body frames among the given frames, in order.
RECURSIVE Payloads(_)
Payloads(w) ==
  IF w = << >> THEN << >>
  ELSE (IF Head(w).method = "undefined" THEN <<Head(w).content>> ELSE << >>)
         \o Payloads(Tail(w))

\* C19: for every body and every frameMax, the body frames sendContent writes
\* carry at most frameMax - 8 octets each and their payloads, concatenated
\* in the order written, are the body.
C19_BodySplitting ==
  [][\A props \in Props, content \in Bodies, frameMax \in FrameMaxes :
       SendMessage(props, content, frameMax)
       => /\ \A k \in 1..Len(Payloads(Written)) :
               Len(Payloads(Written)[k]) <= frameMax - FRAME_OVERHEAD
          /\ Concat(Payloads(Written)) = content]_vars

\* ---------------------------------------------------------------- C20
\* The method frames: every frame but content headers and bodies.
MethodFrames == {f \in AllFrames : f.id \notin {"BasicProperties", "undefined"}}

\* The open handshake awaits its answer: ChannelOpen is the outstanding RPC.
Opening == reply = 1 /\ Len(rpcs) = 1 /\ rpcs[1].out = "unsettled"

\* C20 (as claimed): createChannel writes ChannelOpen first, its promise is
\* resolved only by ChannelOpenOk, and any other method frame the server
\* answers ChannelOpen with rejects it.
C20_OpenRejectedByAnyOtherMethod ==
  [][/\ rpcs' # << >> => wire'[1] = SendImmediately(<< >>, "ChannelOpen", 1)[1]
     /\ \A f \in MethodFrames :
          (Opening /\ Handle(f))
          => IF f.id = "ChannelOpenOk"
             THEN rpcs'[1].out = "resolved"
             ELSE rpcs'[1].out = "rejected"]_vars

\* C20 (amended): createChannel writes ChannelOpen first; its promise is
\* resolved by ChannelOpenOk and by nothing else; a frame of any other id
\* handled as the reply to ChannelOpen, and a ChannelClose, reject it.
C20_OpenHandshake ==
  [][/\ rpcs' # << >> => wire'[1] = SendImmediately(<< >>, "ChannelOpen", 1)[1]
     /\ \A f \in AllFrames :
          (Opening /\ Handle(f))
          => /\ rpcs'[1].out = "resolved" <=> f.id = "ChannelOpenOk"
             /\ (f \in ReplyFrames \cup CloseFrames /\ f.id # "ChannelOpenOk")
                  => rpcs'[1].out = "rejected"]_vars

\* C20 witness: the server answered ChannelOpen with a reply of another id
\* and the open promise is rejected for it.
C20_Witness ==
  /\ Len(rpcs) = 1
  /\ wire = <<[method |-> "ChannelOpen", rpc |-> 1]>>
  /\ rpcs[1].replied
  /\ rpcs[1].out = "rejected"
  /\ rpcs[1].outval.id = "Expected"

\* ---------------------------------------------------------------- C21
\* A get is outstanding: its BasicGet holds the reply slot, unanswered.
GetOutstanding ==
  reply # 0 /\ rpcs[reply].kind = "get" /\ rpcs[reply].st = "unsettled"

C22_AckNackEmitted ==
  [][\A f \in NotImplFrames :
       (Opened /\ f.id \in {"BasicAck", "BasicNack"} /\ Handle(f))
       => /\ thrown' = "none"
          /\ (IF f.id = "BasicAck" THEN "ack" ELSE "nack") \in Emitted
          /\ reply' = reply
          /\ pending' = pending]_vars

\* ---------------------------------------------------------------- C24
\* C24: a BasicReturn on an open channel starts a message like a delivery
\* does, and the body frame that completes a returned message emits it as a
\* 'return' event.
C24_ReturnReassembled ==
  [][/\ \A f \in NotImplFrames :
          (Opened /\ f.id = "BasicReturn" /\ Handle(f))
          => /\ thrown' = "none"
             /\ hm'.st = "headers"
             /\ hm'.kind = "return"
     /\ \A f \in BodyFrames :
          (hm.kind = "return" /\ Completes(f) /\ Handle(f))
          => "return" \in Emitted]_vars

\* ---------------------------------------------------------------- C23
\* C23: once messages were published, handling a BasicAck that covers all
\* of them (multiple, with the tag of the last publish) returns and leaves
\* the promise of every publish resolved; a BasicNack leaves them rejected.
C23_ConfirmCorrelation ==
  [][\A f \in NotImplFrames :
       (Opened /\ Published >= 1 /\ f.id \in {"BasicAck", "BasicNack"} /\ Handle(f))
       => /\ thrown' = "none"
          /\ Len(Confirms) = Published
          /\ \A k \in 1..Published :
               Confirms[k] = (IF f.id = "BasicAck" THEN "resolved" ELSE "rejected")]_vars

\* ---------------------------------------------------------------- C26
\* A consume that was answered with its BasicConsumeOk.
Consuming == \E i \in 1..Len(rpcs) : rpcs[i].kind = "consume" /\ rpcs[i].out = "resolved"

\* C26: the step that handles the BasicConsumeOk of an outstanding consume
\* registers the callback under the tag of that frame, and from then on a
\* delivery for that tag is handed to the callback when its body completes
\* and never fails as an unknown consumer.
C26_ConsumerRegisteredInStep ==
  [][/\ \A f \in ReplyFrames :
          (/\ reply # 0 /\ rpcs[reply].kind = "consume" /\ rpcs[reply].st = "unsettled"
           /\ f.id = "BasicConsumeOk"
           /\ HandleReply(f))
          => f.tag \in consumers'
     /\ \A f \in BodyFrames :
          (/\ Consuming /\ hm.kind = "deliver" /\ hm.fields \in ConsumerTags
           /\ Completes(f)
           /\ HandleMessageFrame(f))
          => /\ thrown' = "none"
             /\ delivered' = Append(delivered,
                                    [fields |-> hm.fields, properties |-> hm.props,
                                     content |-> Concat(hm.buffers) \o f.content])]_vars

\* C26 witness: a consume was answered and a delivery for its tag, two body
\* frames long, was handed to the callback.
C26_Witness ==
  /\ Consuming
  /\ Len(delivered) = 1
  /\ delivered[1].fields \in consumers
  /\ Len(delivered[1].content) = 2

\* ---------------------------------------------------------------- C29
\* C29: the step that handles ChannelClose rejects the outstanding RPC
\* first and then the queued RPCs in the order they were enqueued, which is
\* the order they were issued in, and every one of them with the same error.
C29_FifoRejection ==
  [][\A f \in CloseFrames :
       (reply # 0 /\ HandleChannelClose(f))
       => LET ids == <<reply>> \o [k \in 1..Len(pending) |-> pending[k].reply]
              new == Unsettled(rpcs, ids)
          IN  /\ settled' = settled \o new
              /\ \A j, k \in 1..Len(ids) : j < k => ids[j] < ids[k]
              /\ \A k \in 1..Len(new) :
                   /\ rpcs'[new[k]].st = "rejected"
                   /\ rpcs'[new[k]].out = "rejected"
                   /\ rpcs'[new[k]].outval = rpcs'[new[1]].outval]_vars

\* C29 witness: ChannelClose was handled with one RPC outstanding and two
\* queued; the three were rejected last, in the order they were issued.
C29_Witness ==
  /\ reply # 0
  /\ Len(pending) = 2
  /\ Len(settled) >= 3
  /\ SubSeq(settled, Len(settled) - 2, Len(settled))
       = <<reply, pending[1].reply, pending[2].reply>>
  /\ \A k \in 1..2 : rpcs[pending[k].reply].outval = rpcs[reply].outval
  /\ rpcs[reply].outval.id = "Channel closed"

C28_SynchronousResolution ==
  [][\A f \in ReplyFrames :
       (reply # 0 /\ rpcs[reply].st = "unsettled" /\ HandleReply(f))
       => /\ rpcs'[reply].st = "resolved"
          /\ rpcs'[reply].replied
          /\ settled' = Append(settled, reply)
          /\ rpcs[reply].kind \in RpcKinds
               => /\ rpcs'[reply].out # "unsettled"
                  /\ rpcs'[reply].out = "resolved" <=> f.id = rpcs[reply].expect
          /\ reply' # 0
               => /\ rpcs'[reply'].sent
                  /\ ~rpcs'[reply'].replied
                  /\ rpcs'[reply'].st = "unsettled"]_vars

\* C28 witness: two RPCs issued through _rpc were answered one after the
\* other, each settled by its own reply frame, and a third is in flight.
C28_Witness ==
  /\ Len(settled) = 2
  /\ \A k \in 1..2 :
       /\ rpcs[settled[k]].kind \in RpcKinds
       /\ rpcs[settled[k]].rix = k
       /\ rpcs[settled[k]].out # "unsettled"
  /\ reply # 0
  /\ rpcs[reply].st = "unsettled"

\* ---------------------------------------------------------------- C30
\* The errors the reassembly states throw on a frame out of sequence.
SequenceErrors ==
  {"Unannounced message frame", "Expected headers frame after delivery",
   "Expected content frame after headers", "Too much content sent!"}

\* The channel has detected a protocol-sequence error: the last frame was out
\* of sequence for the reassembly state or overran the body, or an RPC was
\* rejected because its reply had another id than the one expected.
Detected ==
  \/ thrown \in SequenceErrors
  \/ \E i \in 1..Len(rpcs) :
       rpcs[i].out = "rejected" /\ rpcs[i].outval.id = "Expected"

\* C30: once the channel has detected a protocol-sequence error, no later
\* frame changes its state, settles an RPC or hands over a message.
C30_HaltOnProtocolError ==
  [][\A f \in MsgFrames :
       (Detected /\ Handle(f))
       => UNCHANGED <<reply, pending, consumers, hm, rpcs, wire, delivered, settled>>]_vars

\* ---------------------------------------------------------------- C25
\* The octets buf start with a complete frame envelope (type, channel, size
\* and size octets of payload) whose closing octet is not the frame-end.
BadFrameEnd(buf) ==
  /\ Len(buf) >= 7
  /\ Len(buf) >= 8 + Unsigned(SubSeq(buf, 4, 7))
  /\ buf[8 + Unsigned(SubSeq(buf, 4, 7))] # FRAME_END

\* C25: when the octets buffered (those kept from earlier reads and those
\* the stream holds) start with a complete envelope whose closing octet is
\* not the frame-end, recvFrame reports an error; it does not return false
\* (need more data) and hands back no frame.
C25_FrameEndViolationFatal ==
  [][(BadFrameEnd(rest \o readable) /\ RecvFrame)
       => /\ thrown' # "none"
          /\ ret' # "false"
          /\ received' = received]_vars

\* ---------------------------------------------------------------- C31
\* The fields of a channel that the handling of frames works on.
Slots(v) ==
  [reply |-> v.reply, pending |-> v.pending, hm |-> v.hm, consumers |-> v.consumers]

\* C31: handling a frame that carries the number of one channel, whatever
\* the frame (a reply, a reply of the wrong id, a frame out of sequence, a
\* ChannelClose), leaves the reply slot, the queue, the reassembly state and
\* the consumers of every other channel of the connection as they were; and
\* turning from one channel to another changes no channel at all.
C31_ChannelIsolation ==
  [][/\ \A c \in Channels, f \in ConnFrames :
          Dispatch(c, f)
          => \A d \in Channels \ {c} : Slots(View(d))' = Slots(View(d))
     /\ SwitchChannel => \A d \in Channels : View(d)' = View(d)]_vars

\* C31 witness: channel 1 has just handled a ChannelClose while channel 2
\* has an RPC outstanding, another queued and a delivery announced.
C31_Witness ==
  /\ cur = 1
  /\ thrown = "TypeError"
  /\ CloseOksSent = 1
  /\ chans[2].reply # 0
  /\ chans[2].rpcs[chans[2].reply].st = "unsettled"
  /\ chans[2].pending # << >>
  /\ chans[2].hm.st = "headers"

\* ---------------------------------------------------------------- C32
\* C32: a body frame that leaves the body short of the declared size hands no
\* message over and calls no continuation; the body frame that makes it
\* equal hands the message over once, to the consumer's callback or to the
\* get that asked for it, and the reassembly goes back to awaiting a new
\* message.
C32_EmittedOnceComplete ==
  [][\A f \in BodyFrames :
       (hm.st = "content" /\ hm.remaining >= 0 /\ HandleMessageFrame(f))
       => /\ Len(f.content) < hm.remaining
               => /\ delivered' = delivered
                  /\ rpcs' = rpcs
                  /\ thrown' = "none"
                  /\ hm'.st = "content"
          /\ Len(f.content) = hm.remaining
               => /\ thrown' = "none"
                  /\ hm' = Idle
                  /\ hm.kind = "deliver" => Len(delivered') = Len(delivered) + 1
                  /\ hm.kind = "get" => /\ rpcs'[hm.rpc].out = "resolved"
                                        /\ delivered' = delivered]_vars

\* ---------------------------------------------------------------- C33
\* C33: a content header or body frame handled while the trampoline is at
\* unexpectedFrame (no message announced yet, or the last one handed over)
\* throws the unannounced-frame error, hands no message over, settles no
\* RPC and leaves the reply slot, the queue and the trampoline as they were.
C33_UnannouncedContent ==
  [][\A f \in HeaderFrames \cup BodyFrames :
       (hm.st = "unexpectedFrame" /\ HandleMessageFrame(f))
       => /\ thrown' = "Unannounced message frame"
          /\ delivered' = delivered
          /\ rpcs' = rpcs
          /\ reply' = reply
          /\ pending' = pending
          /\ hm' = hm]_vars

\* C33 witness: after a message was handed to the consumer's callback, a
\* further content frame was refused with the channel left idle.
C33_Witness ==
  /\ Len(delivered) = 1
  /\ hm = Idle
  /\ thrown = "Unannounced message frame"

\* ---------------------------------------------------------------- C34
\* C34: a reply frame other than ChannelCloseOk that arrives right after the
\* application called close() is dropped: handling it throws nothing, settles
\* no RPC, hands no message over, writes no frame and changes nothing of the
\* channel.
C34_ClosingWindowDrops ==
  [][\A f \in ReplyFrames :
       (/\ thrown = "TypeError: close is not a function"
        /\ f.id # "ChannelCloseOk"
        /\ Handle(f))
       => /\ thrown' = "none"
          /\ UNCHANGED <<reply, pending, consumers, hm, rpcs, wire, delivered, settled>>]_vars

\* ---------------------------------------------------------------- C35
\* The frame types of the protocol.
FrameTypes == {FRAME_METHOD, FRAME_HEADER, FRAME_BODY, HEARTBEAT}

\* The typed frame the parts of a well-formed frame stand for: what
\* decodeFrame builds for a method, a content header and a heartbeat, and a
\* content frame with its channel and payload for a body.
TypedFrame(frame) ==
  IF frame.type = FRAME_BODY
  THEN Decoded("undefined", frame.channel, 0, frame.size, frame.payload)
  ELSE DecodeFrame(frame).value

\* C35: however the octets were split between this.rest and the stream, a
\* call of recvFrame made when the octets buffered start with a complete
\* well-formed frame returns that frame, typed, and keeps exactly the octets
\* after it; a call made when they do not returns false and keeps every
\* octet.
C35_ChunkingIndependence ==
  [][RecvFrame
       => LET buf   == rest \o readable
              frame == FramePattern(buf)
          IN  /\ (frame.ok /\ frame.type \in FrameTypes)
                   => /\ ret' = "frame"
                      /\ thrown' = "none"
                      /\ received' = Append(received, TypedFrame(frame))
                      /\ rest' \o readable' = frame.rest
              /\ ~frame.ok
                   => /\ ret' = "false"
                      /\ received' = received
                      /\ rest' \o readable' = buf]_vars

\* ---------------------------------------------------------------- C36
\* C36: once the channel has answered a ChannelClose, no frame handled
\* afterwards makes it write anything: the RPCs that were queued stay
\* unsent.
C36_NoSendAfterRemoteClose ==
  [][\A f \in RpcFrames :
       (CloseOksSent >= 1 /\ Handle(f))
       => /\ wire' = wire
          /\ \A k \in 1..Len(pending) : ~rpcs'[pending[k].reply].sent]_vars

\* ---------------------------------------------------------------- C37
\* C37: whenever a frame is handled by the default branch of handle(), as
\* the reply to the outstanding RPC, there is an outstanding RPC: the slot
\* is occupied and the call does not fail on an empty one.
C37_ReplyFindsSlotOccupied ==
  [][\A f \in ReplyFrames :
       HandleReply(f) => (reply # 0 /\ thrown' # "TypeError")]_vars

\* ---------------------------------------------------------------- C38
\* The trampoline awaits the body of a message whose header declared no
\* octets.
AwaitsEmptyBody == hm.st = "content" /\ hm.remaining = 0 /\ hm.buffers = << >>

\* The outcome of the get the trampoline reassembles a message for, if any.
GetOutcome(rs) == IF hm.kind = "get" THEN rs[hm.rpc].out ELSE "none"

\* C38: a content header declaring bodySize 0 hands nothing over and leaves
\* the trampoline awaiting the body; from there only a body frame of length
\* 0 hands the (empty) message over, to a registered consumer or to the get
\* that asked for it; any other frame hands nothing over, and a Deliver
\* starts a new message in place of the old one.
C38_ZeroLengthBody ==
  [][/\ \A f \in HeaderFrames :
          (hm.st = "headers" /\ f.size = 0 /\ HandleMessageFrame(f))
          => /\ hm'.st = "content" /\ hm'.remaining = 0 /\ hm'.props = f.props
             /\ delivered' = delivered
             /\ rpcs' = rpcs
     /\ \A f \in MsgFrames :
          (AwaitsEmptyBody /\ Handle(f))
          => IF f.id = "undefined" /\ f.content = << >>
             THEN /\ (hm.kind = "deliver" /\ hm.fields \in consumers)
                       => /\ delivered' = Append(delivered,
                                                 [fields |-> hm.fields,
                                                  properties |-> hm.props,
                                                  content |-> << >>])
                          /\ hm' = Idle
                  /\ hm.kind = "get"
                       => /\ GetOutcome(rpcs') = "resolved"
                          /\ rpcs'[hm.rpc].outval.msg.content = << >>
                          /\ hm' = Idle
             ELSE /\ delivered' = delivered
                  /\ GetOutcome(rpcs') = GetOutcome(rpcs)
                  /\ f.id = "BasicDeliver" => hm' = AcceptDelivery(f)]_vars

\* C38 witness: an empty message reached the consumer's callback, which
\* took a header declaring no octets and then a body frame of length 0.
C38_Witness ==
  /\ Len(delivered) = 1
  /\ delivered[1].content = << >>
  /\ delivered[1].fields \in consumers
  /\ hm = Idle

\* ---------------------------------------------------------------- C39
\* C39: with a peer that answers every request it receives or closes the
\* channel, every RPC issued on the channel, sent at once or queued, has its
\* deferred resolved or rejected in the end.
C39_RpcLiveness ==
  \A i \in 1..MaxRpc :
    (Len(rpcs) >= i) ~> (Len(rpcs) >= i /\ rpcs[i].st # "unsettled")

====
